---- MODULE Spec2Model ----
(***************************************************************************)
(* Model of finite-elements/1d_finite_element_solver.py: the 1D finite     *)
(* element solver finite_element(interval, N_Elements) with its helpers    *)
(* f_function, local_stiffness and local_force.                            *)
(*                                                                         *)
(* Floating point values are modelled as exact rationals <<n, d>> in       *)
(* lowest terms with d > 0; the pair <<1, 0>> stands for every non-finite  *)
(* float (inf, -inf, nan), which numpy produces on a division by zero.     *)
(* Arrays keep the source's 0-based indices: a 1-d array of length n is a  *)
(* function on 0..n-1, a 2-d array a function on pairs <<row, column>>.    *)
(***************************************************************************)
EXTENDS Integers, FiniteSets, Sequences, TLC

\* ---------------------------------------------------------------- bounds
\* largest number of elements tried
MaxN == 4
\* interval end points are drawn from -MaxCoord..MaxCoord
MaxCoord == 1

\* ------------------------------------------------- float64 as rationals
RECURSIVE GCD(_, _)
GCD(m, n) == IF n = 0 THEN m ELSE GCD(n, m % n)

Abs(i) == IF i < 0 THEN -i ELSE i

NonFinite == <<1, 0>>

IsFinite(r) == r[2] # 0

Rat(n, d) ==
    IF d = 0 THEN NonFinite
    ELSE LET g == GCD(Abs(n), Abs(d))
             s == IF d < 0 THEN -1 ELSE 1
         IN  <<(s * n) \div g, (s * d) \div g>>

FromInt(i) == <<i, 1>>

Zero == FromInt(0)

RAdd(p, q) ==
    IF IsFinite(p) /\ IsFinite(q)
    THEN Rat(p[1] * q[2] + q[1] * p[2], p[2] * q[2])
    ELSE NonFinite

RNeg(p) == IF IsFinite(p) THEN <<-p[1], p[2]>> ELSE NonFinite

RSub(p, q) == RAdd(p, RNeg(q))

RMul(p, q) ==
    IF IsFinite(p) /\ IsFinite(q)
    THEN Rat(p[1] * q[1], p[2] * q[2])
    ELSE NonFinite

\* numpy float64 division: a zero divisor gives inf or nan, not an exception
RDiv(p, q) ==
    IF IsFinite(p) /\ IsFinite(q)
    THEN Rat(p[1] * q[2], p[2] * q[1])
    ELSE NonFinite

RLess(p, q) == IsFinite(p) /\ IsFinite(q) /\ p[1] * q[2] < q[1] * p[2]

RECURSIVE Pow(_, _)
Pow(base, k) == IF k = 0 THEN 1 ELSE base * Pow(base, k - 1)

\* ------------------------------------------------------- numpy helpers
\* len() of a 1-d array
ALen(arr) == Cardinality(DOMAIN arr)

\* whether index i is accepted by an axis of size n (negative indices count
\* from the end)
ValidIndex(i, n) == -n <= i /\ i < n

WrapIndex(i, n) == IF i < 0 THEN i + n ELSE i

\* arr[lo:hi] of a 1-d array, 0 <= lo
Slice(arr, lo, hi) ==
    LET top == IF hi < ALen(arr) THEN hi ELSE ALen(arr)
    IN  [i \in 0..(top - lo - 1) |-> arr[lo + i]]

zeros1(n) == [i \in 0..(n - 1) |-> Zero]

zeros2(n) == [p \in (0..(n - 1)) \X (0..(n - 1)) |-> Zero]

\* np.zeros((2, n), dtype=int)
zerosLM(n) == [p \in (0..1) \X (0..(n - 1)) |-> 0]

\* a slip: the step of endpoint=False, delta / num
linspace_open(start, stop, num) ==
    LET delta == RSub(stop, start)
        step  == RDiv(delta, FromInt(num))
    IN  [i \in 0..(num - 1) |-> RAdd(RMul(FromInt(i), step), start)]

\* np.linspace(start, stop, num) with endpoint=True, for num >= 0:
\* y = arange(num) * step + start, then y[-1] = stop when num > 1
linspace(start, stop, num) ==
    LET div   == num - 1
        delta == RSub(stop, start)
        step  == RDiv(delta, FromInt(div))
    IN  [i \in 0..(num - 1) |->
            IF num > 1 /\ i = num - 1 THEN stop
            ELSE IF div > 0 THEN RAdd(RMul(FromInt(i), step), start)
            ELSE RAdd(RMul(FromInt(i), delta), start)]

\* a slip: the boundary value put in front, np.hstack(([0], T_A))
hstack_front(v) ==
    [i \in 0..ALen(v) |-> IF i = 0 THEN Zero ELSE v[i - 1]]

\* np.hstack((T_A, [0]))
hstack(v) ==
    [i \in 0..ALen(v) |-> IF i < ALen(v) THEN v[i] ELSE Zero]

\* ------------------------------------------------------- the functions
f_function(v) == RMul(v, v)

\* a slip: the sign taken from a alone, (-1) ** a
local_stiffness_asym(local_nodes) ==
    LET N == ALen(local_nodes)
    IN  [p \in (0..(N - 1)) \X (0..(N - 1)) |->
            RDiv(FromInt(Pow(-1, p[1])),
                 RSub(local_nodes[1], local_nodes[0]))]

\* a slip: the sign taken from the product, (-1) ** (a * b)
local_stiffness_prod(local_nodes) ==
    LET N == ALen(local_nodes)
    IN  [p \in (0..(N - 1)) \X (0..(N - 1)) |->
            RDiv(FromInt(Pow(-1, p[1] * p[2])),
                 RSub(local_nodes[1], local_nodes[0]))]

local_stiffness(local_nodes) ==
    LET N == ALen(local_nodes)
    IN  [p \in (0..(N - 1)) \X (0..(N - 1)) |->
            RDiv(FromInt(Pow(-1, p[1] + p[2])),
                 RSub(local_nodes[1], local_nodes[0]))]

\* a slip: the element length taken as local_nodes[0] - local_nodes[1]
local_force_reversed(local_nodes) ==
    LET c  == RDiv(RSub(local_nodes[0], local_nodes[1]), FromInt(6))
        f0 == f_function(local_nodes[0])
        f1 == f_function(local_nodes[1])
    IN  [i \in 0..1 |->
            IF i = 0 THEN RMul(c, RAdd(RMul(FromInt(2), f0), f1))
            ELSE RMul(c, RAdd(f0, RMul(FromInt(2), f1)))]

local_force(local_nodes) ==
    LET c  == RDiv(RSub(local_nodes[1], local_nodes[0]), FromInt(6))
        f0 == f_function(local_nodes[0])
        f1 == f_function(local_nodes[1])
    IN  [i \in 0..1 |->
            IF i = 0 THEN RMul(c, RAdd(RMul(FromInt(2), f0), f1))
            ELSE RMul(c, RAdd(f0, RMul(FromInt(2), f1)))]

\* one pass of the body of the location matrix loop, for element el
FillLM(lm, el) ==
    [lm EXCEPT ![<<0, el>>] = el, ![<<1, el>>] = el + 1]

\* the value that marks a local node as not assembled
NotAssembled == -1

\* a slip: the sentinel put in the row of the left hand nodes
SetSentinel_left(lm, n) ==
    [lm EXCEPT ![<<0, WrapIndex(-1, n)>>] = NotAssembled]

\* LM[1, -1] = -1 on a location matrix with n >= 1 columns
SetSentinel(lm, n) == [lm EXCEPT ![<<1, WrapIndex(-1, n)>>] = NotAssembled]

\* a slip: no test, so that -1 indexes the last row or column
StiffnessGuard_none(A, B) == TRUE

\* the test guarding K_global[A, B] += kab[a, b]
StiffnessGuard(A, B) == A >= 0 /\ B >= 0

\* a slip: no test, so that -1 indexes the last entry
ForceGuard_none(A) == TRUE

\* the test guarding F_global[A] += fab[a]
ForceGuard(A) == A >= 0

\* K_global[A, B] += kab[a, b] under its guard, for local nodes la, lb of
\* element el; n is the size of K
ScatterStiffness(K, lm, k, el, la, lb, n) ==
    LET A == lm[<<la, el>>]
        B == lm[<<lb, el>>]
    IN  IF StiffnessGuard(A, B)
        THEN [K EXCEPT ![<<WrapIndex(A, n), WrapIndex(B, n)>>] =
                          RAdd(@, k[<<la, lb>>])]
        ELSE K

\* whether that statement indexes K_global inside its bounds (or not at all)
StiffnessIndexOK(lm, el, la, lb, n) ==
    LET A == lm[<<la, el>>]
        B == lm[<<lb, el>>]
    IN  StiffnessGuard(A, B) => ValidIndex(A, n) /\ ValidIndex(B, n)

\* a slip: F_global[A] = fab[a], an assignment
ScatterForce_assign(F, lm, f, el, la, n) ==
    LET A == lm[<<la, el>>]
    IN  IF ForceGuard(A)
        THEN [F EXCEPT ![WrapIndex(A, n)] = f[la]]
        ELSE F

\* F_global[A] += fab[a] under its guard
ScatterForce(F, lm, f, el, la, n) ==
    LET A == lm[<<la, el>>]
    IN  IF ForceGuard(A)
        THEN [F EXCEPT ![WrapIndex(A, n)] = RAdd(@, f[la])]
        ELSE F

ForceIndexOK(lm, el, la, n) ==
    LET A == lm[<<la, el>>]
    IN  ForceGuard(A) => ValidIndex(A, n)

\* ------------------------------------------------------ np.linalg.solve
AllFinite(arr) == \A p \in DOMAIN arr : IsFinite(arr[p])

\* M without row 0 and column j, M an n x n matrix
Minor(M, n, j) ==
    [p \in (0..(n - 2)) \X (0..(n - 2)) |->
        M[<<p[1] + 1, IF p[2] < j THEN p[2] ELSE p[2] + 1>>]]

RECURSIVE RSum(_, _)
\* sum of term[0] .. term[k]
RSum(term, k) == IF k < 0 THEN Zero ELSE RAdd(RSum(term, k - 1), term[k])

RECURSIVE Det(_, _)
Det(M, n) ==
    IF n = 0 THEN FromInt(1)
    ELSE IF n = 1 THEN M[<<0, 0>>]
    ELSE RSum([j \in 0..(n - 1) |->
                  RMul(RMul(FromInt(Pow(-1, j)), M[<<0, j>>]),
                       Det(Minor(M, n, j), n - 1))],
              n - 1)

\* M with column j replaced by the vector v
ReplaceColumn(M, j, v) ==
    [p \in DOMAIN M |-> IF p[2] = j THEN v[p[1]] ELSE M[p]]

\* The outcomes of np.linalg.solve(K, F) for an n x n matrix: the exact
\* solution when K is non-singular, LinAlgError when it is singular.  With a
\* non-finite entry in the system LAPACK's answer depends on the build: it
\* may raise, or return a vector of nan, or of zeros.
solve(K, F, n) ==
    IF ~(AllFinite(K) /\ AllFinite(F))
    THEN {[ok |-> FALSE, val |-> zeros1(0)],
          [ok |-> TRUE, val |-> [i \in 0..(n - 1) |-> NonFinite]],
          [ok |-> TRUE, val |-> zeros1(n)]}
    ELSE IF Det(K, n) = Zero
    THEN {[ok |-> FALSE, val |-> zeros1(0)]}
    ELSE {[ok |-> TRUE,
           val |-> [i \in 0..(n - 1) |->
                      RDiv(Det(ReplaceColumn(K, i, F), n), Det(K, n))]]}

\* ---------------------------------------------------------------- state
VARIABLES
    interval,     \* argument: [interval[0], interval[1]]
    N_Elements,   \* argument
    pc,           \* position in finite_element
    err,          \* the exception that ended the call, "" when none
    x,            \* global node locations
    LM,           \* location matrix
    e,            \* index of the location matrix loop
    K_global,
    F_global,
    element,      \* index of the assembly loop
    a,            \* local node index of the outer scatter loop
    b,            \* local node index of the inner scatter loop
    kab,
    fab,
    T_A,
    T,            \* the returned temperatures
    estep         \* per element: scatter statements done (any-order assembly)

vars == <<interval, N_Elements, pc, err, x, LM, e, K_global, F_global,
          element, a, b, kab, fab, T_A, T, estep>>

Coords == (-MaxCoord)..MaxCoord

Init ==
    /\ interval \in {[i \in 0..1 |-> FromInt(IF i = 0 THEN lo ELSE hi)] :
                        lo \in Coords, hi \in Coords}
    /\ N_Elements \in (-2)..MaxN
    /\ pc = "linspace"
    /\ err = ""
    /\ x = zeros1(0)
    /\ LM = zerosLM(0)
    /\ e = 0
    /\ K_global = zeros2(0)
    /\ F_global = zeros1(0)
    /\ element = 0
    /\ a = 0
    /\ b = 0
    /\ kab = zeros2(0)
    /\ fab = zeros1(0)
    /\ T_A = zeros1(0)
    /\ T = zeros1(0)
    /\ estep = [el \in 0..(N_Elements - 1) |-> 0]

\* x = np.linspace(interval[0], interval[1], N_Elements + 1)
Linspace ==
    /\ pc = "linspace"
    /\ IF N_Elements + 1 < 0
       THEN /\ pc' = "raised"
            /\ err' = "ValueError"
            /\ x' = x
       ELSE /\ pc' = "LM_alloc"
            /\ err' = err
            /\ x' = linspace(interval[0], interval[1], N_Elements + 1)
    /\ UNCHANGED <<interval, N_Elements, LM, e, K_global, F_global, element,
                   a, b, kab, fab, T_A, T, estep>>

\* LM = np.zeros((2, N_Elements), dtype=np.int), under a numpy that still has
\* the alias np.int (before 1.24; later ones raise AttributeError here)
LMAlloc ==
    /\ pc = "LM_alloc"
    /\ IF N_Elements < 0
       THEN /\ pc' = "raised"
            /\ err' = "ValueError"
            /\ LM' = LM
       ELSE /\ pc' = "LM_loop"
            /\ err' = err
            /\ LM' = zerosLM(N_Elements)
    /\ e' = 0
    /\ UNCHANGED <<interval, N_Elements, x, K_global, F_global, element,
                   a, b, kab, fab, T_A, T, estep>>

\* one iteration of  for e in range(N_Elements)
LMFill ==
    /\ pc = "LM_loop"
    /\ e < N_Elements
    /\ LM' = FillLM(LM, e)
    /\ e' = e + 1
    /\ UNCHANGED <<interval, N_Elements, pc, err, x, K_global, F_global,
                   element, a, b, kab, fab, T_A, T, estep>>

\* LM[1, -1] = -1 once the loop has ended
LMSentinel ==
    /\ pc = "LM_loop"
    /\ e >= N_Elements
    /\ IF ValidIndex(-1, N_Elements)
       THEN /\ pc' = "alloc"
            /\ err' = err
            /\ LM' = SetSentinel(LM, N_Elements)
       ELSE /\ pc' = "raised"
            /\ err' = "IndexError"
            /\ LM' = LM
    /\ UNCHANGED <<interval, N_Elements, x, e, K_global, F_global, element,
                   a, b, kab, fab, T_A, T, estep>>

\* K_global = np.zeros((N, N)); F_global = np.zeros(N)
AllocGlobal ==
    /\ pc = "alloc"
    /\ K_global' = zeros2(N_Elements)
    /\ F_global' = zeros1(N_Elements)
    /\ element' = 0
    /\ pc' = "assemble"
    /\ UNCHANGED <<interval, N_Elements, err, x, LM, e, a, b, kab, fab,
                   T_A, T, estep>>

\* head of one iteration of the assembly loop: the local matrices
ElementBegin ==
    /\ pc = "assemble"
    /\ element < N_Elements
    /\ kab' = local_stiffness(Slice(x, element, element + 2))
    /\ fab' = local_force(Slice(x, element, element + 2))
    /\ a' = 0
    /\ b' = 0
    /\ pc' = "scatterK"
    /\ UNCHANGED <<interval, N_Elements, err, x, LM, e, K_global, F_global,
                   element, T_A, T, estep>>

\* one iteration of  for b in range(2)
ScatterK ==
    /\ pc = "scatterK"
    /\ IF StiffnessIndexOK(LM, element, a, b, N_Elements)
       THEN /\ K_global' = ScatterStiffness(K_global, LM, kab, element, a, b,
                                            N_Elements)
            /\ b' = b + 1
            /\ pc' = IF b + 1 < 2 THEN "scatterK" ELSE "scatterF"
            /\ err' = err
       ELSE /\ pc' = "raised"
            /\ err' = "IndexError"
            /\ UNCHANGED <<K_global, b>>
    /\ UNCHANGED <<interval, N_Elements, x, LM, e, F_global, element, a,
                   kab, fab, T_A, T, estep>>

\* the end of one iteration of  for a in range(2), and of the element when
\* it was the last
ScatterF ==
    /\ pc = "scatterF"
    /\ IF ForceIndexOK(LM, element, a, N_Elements)
       THEN /\ F_global' = ScatterForce(F_global, LM, fab, element, a,
                                        N_Elements)
            /\ a' = a + 1
            /\ b' = 0
            /\ pc' = IF a + 1 < 2 THEN "scatterK" ELSE "assemble"
            /\ element' = IF a + 1 < 2 THEN element ELSE element + 1
            /\ err' = err
       ELSE /\ pc' = "raised"
            /\ err' = "IndexError"
            /\ UNCHANGED <<F_global, a, b, element>>
    /\ UNCHANGED <<interval, N_Elements, x, LM, e, K_global, kab, fab,
                   T_A, T, estep>>

\* T_A = np.linalg.solve(K_global, F_global)
Solve ==
    /\ pc = "assemble"
    /\ element >= N_Elements
    /\ \E r \in solve(K_global, F_global, N_Elements) :
          IF r.ok
          THEN /\ T_A' = r.val
               /\ pc' = "hstack"
               /\ err' = err
          ELSE /\ T_A' = T_A
               /\ pc' = "raised"
               /\ err' = "LinAlgError"
    /\ UNCHANGED <<interval, N_Elements, x, LM, e, K_global, F_global,
                   element, a, b, kab, fab, T, estep>>

\* T = np.hstack((T_A, [0])); return x, T
Return ==
    /\ pc = "hstack"
    /\ T' = hstack(T_A)
    /\ pc' = "done"
    /\ UNCHANGED <<interval, N_Elements, err, x, LM, e, K_global, F_global,
                   element, a, b, kab, fab, T_A, estep>>

Next ==
    \/ Linspace
    \/ LMAlloc
    \/ LMFill
    \/ LMSentinel
    \/ AllocGlobal
    \/ ElementBegin
    \/ ScatterK
    \/ ScatterF
    \/ Solve
    \/ Return

Spec == Init /\ [][Next]_vars

\* ------------------------------------- assembly in any order of elements
\* The body of the assembly loop for one element is six statements, in this
\* order: K(0,0), K(0,1), F(0), K(1,0), K(1,1), F(1).  Statement s of element
\* el, applied to the global matrix and vector:
StepsPerElement == 6

StepK(K, xs, lm, el, s, n) ==
    IF s % 3 < 2
    THEN ScatterStiffness(K, lm, local_stiffness(Slice(xs, el, el + 2)),
                          el, s \div 3, s % 3, n)
    ELSE K

StepF(F, xs, lm, el, s, n) ==
    IF s % 3 = 2
    THEN ScatterForce(F, lm, local_force(Slice(xs, el, el + 2)),
                      el, s \div 3, n)
    ELSE F

StepIndexOK(lm, el, s, n) ==
    IF s % 3 < 2
    THEN StiffnessIndexOK(lm, el, s \div 3, s % 3, n)
    ELSE ForceIndexOK(lm, el, s \div 3, n)

\* the assembly loop as the code runs it, as a function of the mesh and the
\* location matrix: K_global and F_global after its first k statements
RECURSIVE SeqK(_, _, _, _)
SeqK(xs, lm, n, k) ==
    IF k = 0 THEN zeros2(n)
    ELSE StepK(SeqK(xs, lm, n, k - 1), xs, lm,
               (k - 1) \div StepsPerElement, (k - 1) % StepsPerElement, n)

RECURSIVE SeqF(_, _, _, _)
SeqF(xs, lm, n, k) ==
    IF k = 0 THEN zeros1(n)
    ELSE StepF(SeqF(xs, lm, n, k - 1), xs, lm,
               (k - 1) \div StepsPerElement, (k - 1) % StepsPerElement, n)

\* the next scatter statement of element el, the elements taken in any order
\* and their statements interleaved, each statement atomic
ScatterAny(el) ==
    /\ pc = "assemble"
    /\ element = 0
    /\ estep[el] < StepsPerElement
    /\ IF StepIndexOK(LM, el, estep[el], N_Elements)
       THEN /\ K_global' = StepK(K_global, x, LM, el, estep[el], N_Elements)
            /\ F_global' = StepF(F_global, x, LM, el, estep[el], N_Elements)
            /\ estep' = [estep EXCEPT ![el] = @ + 1]
            /\ UNCHANGED <<pc, err>>
       ELSE /\ pc' = "raised"
            /\ err' = "IndexError"
            /\ UNCHANGED <<K_global, F_global, estep>>
    /\ UNCHANGED <<interval, N_Elements, x, LM, e, element, a, b, kab, fab,
                   T_A, T>>

\* every element has been scattered: the loop is over
FinishAny ==
    /\ pc = "assemble"
    /\ element = 0
    /\ N_Elements >= 1
    /\ \A el \in DOMAIN estep : estep[el] = StepsPerElement
    /\ element' = N_Elements
    /\ UNCHANGED <<interval, N_Elements, pc, err, x, LM, e, K_global,
                   F_global, a, b, kab, fab, T_A, T, estep>>

NextAny ==
    \/ Linspace
    \/ LMAlloc
    \/ LMFill
    \/ LMSentinel
    \/ AllocGlobal
    \/ \E el \in DOMAIN estep : ScatterAny(el)
    \/ FinishAny
    \/ Solve
    \/ Return

SpecAny == Init /\ [][NextAny]_vars

\* the sequential loop of Spec computes SeqK and SeqF
SequentialIsSeq ==
    (pc \in {"assemble", "scatterK", "scatterF"} /\ N_Elements >= 1) =>
        LET k == StepsPerElement * element
                 + (IF pc = "assemble" THEN 0
                    ELSE IF pc = "scatterK" THEN 3 * a + b ELSE 3 * a + 2)
        IN  /\ K_global = SeqK(x, LM, N_Elements, k)
            /\ F_global = SeqF(x, LM, N_Elements, k)

\* ---------------------------------------------------------- properties
ValidInput == N_Elements >= 1 /\ RLess(interval[0], interval[1])

\* the call has got past the point named
MeshMade == pc \in {"LM_alloc", "LM_loop", "alloc", "assemble", "scatterK",
                    "scatterF", "hstack", "done"}

LMBuilt == pc \in {"alloc", "assemble", "scatterK", "scatterF", "hstack",
                   "done"}

Assembled == \/ pc = "assemble" /\ element >= N_Elements
             \/ pc \in {"hstack", "done"}

\* C1: a call with N < 1 or with a >= b fails: it returns no result, and it
\* fails before any element matrix is computed and before anything is
\* accumulated.  (The code defines no InvalidMeshError; any exception raised
\* that early is taken here as the failure the claim means.)
C1_InvalidInputRejected ==
    ~ValidInput =>
        /\ pc # "done"
        /\ pc \notin {"scatterK", "scatterF", "hstack"}

\* an interval with a > b goes all the way to a returned result
C1_ReversedIntervalReturns ==
    /\ pc = "done"
    /\ RLess(interval[1], interval[0])
    /\ AllFinite(T)

\* C1, the part the code keeps: with N < 1 the call never returns a result
\* and computes no element matrix.
C1_NoElementsNoResult ==
    N_Elements < 1 => pc \notin {"scatterK", "scatterF", "hstack", "done"}

LMCount(v) == Cardinality({p \in DOMAIN LM : LM[p] = v})

\* C4: for N >= 1 the location matrix has LM[0,e] = e for every element,
\* LM[1,e] = e+1 for every element but the last, and the sentinel at
\* LM[1,N-1] and nowhere else; node 0 occurs once, nodes 1..N-1 twice, node N
\* never.
C4_LocationMatrix ==
    (LMBuilt /\ N_Elements >= 1) =>
        /\ DOMAIN LM = (0..1) \X (0..(N_Elements - 1))
        /\ \A el \in 0..(N_Elements - 1) : LM[<<0, el>>] = el
        /\ \A el \in 0..(N_Elements - 2) : LM[<<1, el>>] = el + 1
        /\ LM[<<1, N_Elements - 1>>] = NotAssembled
        /\ LMCount(NotAssembled) = 1
        /\ LMCount(0) = 1
        /\ \A i \in 1..(N_Elements - 1) : LMCount(i) = 2
        /\ LMCount(N_Elements) = 0

C4_Witness ==
    /\ pc = "alloc"
    /\ N_Elements = 3

\* the single-element case of C4 is reached too
C4_WitnessOne ==
    /\ pc = "alloc"
    /\ N_Elements = 1

Symmetric(K, n) ==
    \A P \in 0..(n - 1) : \A Q \in 0..(n - 1) : K[<<P, Q>>] = K[<<Q, P>>]

\* C5: K_global is symmetric before the first element, after each element
\* has been scattered completely, and when the loop has finished.
C5_GlobalSymmetric ==
    (pc \in {"assemble", "hstack", "done"} /\ N_Elements >= 1) =>
        Symmetric(K_global, N_Elements)

C5_Witness ==
    /\ pc = "assemble"
    /\ N_Elements = 3
    /\ element = 1
    /\ K_global[<<0, 1>>] # Zero
    /\ K_global[<<1, 2>>] = Zero

\* between two statements of one element the matrix need not be symmetric
C5_MidElementAsymmetric ==
    /\ pc = "scatterF"
    /\ a = 0
    /\ ~Symmetric(K_global, N_Elements)

\* C6: for valid input the N x N matrix handed to the solve has a non-zero
\* determinant, and the solve does not fail.
C6_NonSingular ==
    ValidInput =>
        /\ Assembled => /\ AllFinite(K_global)
                        /\ Det(K_global, N_Elements) # Zero
        /\ err # "LinAlgError"

C6_Witness ==
    /\ pc = "hstack"
    /\ ValidInput
    /\ N_Elements = 3

\* C7: whatever the order of the elements and the interleaving of their
\* scatter statements, the assembled K_global and F_global are those of the
\* sequential order 0, 1, ..., N-1.
C7_OrderIndependent ==
    (Assembled /\ N_Elements >= 1) =>
        /\ K_global = SeqK(x, LM, N_Elements, StepsPerElement * N_Elements)
        /\ F_global = SeqF(x, LM, N_Elements, StepsPerElement * N_Elements)

\* the last element scattered completely before the first one has started
C7_Witness ==
    /\ pc = "assemble"
    /\ N_Elements = 3
    /\ ValidInput
    /\ estep[2] = StepsPerElement
    /\ estep[1] = 1
    /\ estep[0] = 0

C9_LocalStiffness ==
    (pc \in {"scatterK", "scatterF"}
        /\ RLess(x[element], x[element + 1])) =>
        LET h == RSub(x[element + 1], x[element])
        IN  /\ DOMAIN kab = (0..1) \X (0..1)
            /\ \A p \in 0..1 : \A q \in 0..1 :
                  kab[<<p, q>>] = IF (p + q) % 2 = 0
                                  THEN RDiv(FromInt(1), h)
                                  ELSE RNeg(RDiv(FromInt(1), h))
            /\ kab[<<0, 1>>] = kab[<<1, 0>>]
            /\ \A p \in 0..1 : RAdd(kab[<<p, 0>>], kab[<<p, 1>>]) = Zero

C9_Witness ==
    /\ pc = "scatterK"
    /\ N_Elements = 3
    /\ element = 1
    /\ RLess(x[element], x[element + 1])
    /\ kab[<<0, 0>>] = Rat(3, 2)

\* the tridiagonal matrix of C10 for element length h
Tridiagonal(n, h) ==
    [p \in (0..(n - 1)) \X (0..(n - 1)) |->
        IF p[1] = p[2]
        THEN (IF p[1] = 0 THEN RDiv(FromInt(1), h) ELSE RDiv(FromInt(2), h))
        ELSE IF p[1] = p[2] + 1 \/ p[2] = p[1] + 1
        THEN RNeg(RDiv(FromInt(1), h))
        ELSE Zero]

RECURSIVE SetSum(_, _)
\* the sum of val[p] over the pairs p of the set S
SetSum(val, S) ==
    IF S = {} THEN Zero
    ELSE LET p == CHOOSE q \in S : TRUE
         IN  RAdd(val[p], SetSum(val, S \ {p}))

\* the sum of f[p] over the (local node, element) pairs that lm maps to P
MappedForce(lm, xs, P) ==
    SetSum([p \in DOMAIN lm |-> local_force(Slice(xs, p[2], p[2] + 2))[p[1]]],
           {p \in DOMAIN lm : lm[p] = P})

\* one step of the call, as C10 has it
C10_Step ==
    interval[0] # interval[1] =>
        /\ pc \in {"scatterK", "scatterF"} => pc' # "raised"
        /\ pc = "scatterK" =>
              LET P == element + a
                  Q == element + b
              IN  K_global' =
                    IF P <= N_Elements - 1 /\ Q <= N_Elements - 1
                    THEN [K_global EXCEPT ![<<P, Q>>] =
                                              RAdd(@, kab[<<a, b>>])]
                    ELSE K_global
        /\ pc = "scatterF" =>
              LET P == element + a
              IN  F_global' =
                    IF P <= N_Elements - 1
                    THEN [F_global EXCEPT ![P] = RAdd(@, fab[a])]
                    ELSE F_global
        /\ (pc' = "assemble" /\ element' = N_Elements) =>
              /\ K_global' = Tridiagonal(N_Elements, RSub(x[1], x[0]))
              /\ \A P \in 0..(N_Elements - 1) : F_global'[P] = MappedForce(LM, x, P)

\* C10: every accumulation goes to indices 0..N-1, a local node mapped to
\* the sentinel is never used as an index, the last element adds only
\* k[0][0] and f[0] and every other element all its entries; the final
\* K_global is tridiagonal with 1/h, 2/h on the diagonal and -1/h beside
\* it, and F_global[P] is the sum of the f[p] mapped to P.
C10_ScatterFrame == [][C10_Step]_vars

C10_Witness ==
    /\ pc = "assemble"
    /\ element = N_Elements
    /\ N_Elements = 3
    /\ interval[0] # interval[1]
    /\ K_global[<<2, 2>>] = RDiv(FromInt(2), RSub(x[1], x[0]))
    /\ F_global[2] # Zero

====
